---- MODULE Spec2Model ----
(***************************************************************************)
(* The todo service of src/unnamed/part_000: startup (loadConfig,          *)
(* initializeDatabase, Listen), the middleware chain registered in main    *)
(* (RateLimiter.Limit, logMiddleware, timeoutMiddleware, corsMiddleware,   *)
(* jwtMiddleware, userActivityLogger) and the route handlers over the      *)
(* "todos" collection.                                                     *)
(*                                                                         *)
(* A slot is one fiber request context.  Its main goroutine runs Limit,    *)
(* logMiddleware and timeoutMiddleware; timeoutMiddleware starts a second  *)
(* goroutine that runs the rest of the chain (cors, jwt, activity logger,  *)
(* route handler) on the same context and reports on the channel "done".   *)
(***************************************************************************)
EXTENDS Integers, Sequences, FiniteSets, TLC

\* ------------------------------------------------------------- bounds
\* Spec, the service as main configures it: request contexts in flight at
\* once, requests received in one run, last value of the clock.
MaxSlots == 1
MaxArrivals == 3
MaxTime == 1
\* SpecLimiter, Limit with small parameters: the same three bounds, and the
\* maxRequests and window handed to Limit.
LimSlots == 2
LimArrivals == 4
LimTime == 2
LimMaxRequests == 2
LimWindow == 1
\* SpecGates, a limiter that admits few requests: the maxRequests handed to
\* Limit and the requests received.
GateMaxRequests == 1
GateArrivals == 2

\* The run that is checked for progress.
LiveArrivals == 3

\* --------------------------------------------------- program constants
\* One tick of the clock is ten seconds: main passes Limit 100 requests and
\* one minute, and timeoutMiddleware ten seconds.
maxRequests == 100
window == 6
timeout == 1
maxRetries == 3
TitleMaxLen == 100
ObjectIDHexLen == 24
doneCap == 1

Slots == 1..(IF MaxSlots > LimSlots THEN MaxSlots ELSE LimSlots)

\* c.IP() of the clients.
Clients == {"ip1", "ip2"}

Rep(n, ch) == [k \in 1..n |-> ch]

\* ------------------------------------------------------------ strings
\* A string is a sequence of characters; "e_acute" and "nbsp" stand for the
\* two-byte UTF-8 characters U+00E9 and U+00A0 (the latter is white space).
ByteWidth(ch) == IF ch \in {"e_acute", "nbsp"} THEN 2 ELSE 1

IsSpace(ch) == ch \in {" ", "nbsp"}

\* Go's len of a string: its length in bytes.
RECURSIVE len(_)
len(s) == IF s = <<>> THEN 0 ELSE ByteWidth(Head(s)) + len(Tail(s))

RECURSIVE TrimLeft(_)
TrimLeft(s) == IF s # <<>> /\ IsSpace(Head(s)) THEN TrimLeft(Tail(s)) ELSE s

RECURSIVE TrimRight(_)
TrimRight(s) ==
    IF s # <<>> /\ IsSpace(s[Len(s)])
    THEN TrimRight(SubSeq(s, 1, Len(s) - 1))
    ELSE s

TrimSpace(s) == TrimRight(TrimLeft(s))

\* validateTodo with the whitespace rule left out.
validateTodoNoWhitespaceRule(title) ==
    IF title = <<>> THEN "title is required"
    ELSE IF len(title) > TitleMaxLen THEN "title must be less than 100 characters"
    ELSE "nil"

\* The error validateTodo returns, "nil" for none.
validateTodo(title) ==
    IF title = <<>> THEN "title is required"
    ELSE IF len(title) > TitleMaxLen THEN "title must be less than 100 characters"
    ELSE IF TrimSpace(title) = <<>> THEN "title cannot be only whitespace"
    ELSE "nil"

\* The titles requests carry.
Titles ==
    { <<>>, <<"a">>, <<" ">>, <<"nbsp">>, Rep(100, "a"), Rep(101, "a"),
      Rep(101, " "), Rep(51, "e_acute") }

\* -------------------------------------------------------- identifiers
\* An ObjectID is twelve bytes.
OID(n) == [k \in 1..12 |-> IF k = 12 THEN n ELSE 0]

NilObjectID == OID(0)

\* The identifiers the driver can generate and request bodies can carry.
IdPool == {OID(1), OID(171)}

HexChars == <<"0", "1", "2", "3", "4", "5", "6", "7", "8", "9",
              "a", "b", "c", "d", "e", "f">>

UpperHexChars == <<"A", "B", "C", "D", "E", "F">>

\* The value of a hexadecimal digit, -1 for any other character.
HexVal(ch) ==
    IF \E k \in 1..16 : HexChars[k] = ch
    THEN (CHOOSE k \in 1..16 : HexChars[k] = ch) - 1
    ELSE IF \E k \in 1..6 : UpperHexChars[k] = ch
    THEN (CHOOSE k \in 1..6 : UpperHexChars[k] = ch) + 9
    ELSE -1

\* ObjectID.Hex: 24 lower-case digits.
Hex(oid) ==
    [k \in 1..ObjectIDHexLen |->
        IF k % 2 = 1 THEN HexChars[(oid[(k + 1) \div 2] \div 16) + 1]
        ELSE HexChars[(oid[k \div 2] % 16) + 1]]

\* ObjectIDFromHex that checks the digits and not the length.
ObjectIDFromHexAnyLength(s) ==
    IF \E k \in 1..Len(s) : HexVal(s[k]) = -1
    THEN [err |-> TRUE, id |-> NilObjectID]
    ELSE [err |-> FALSE,
          id |-> [k \in 1..12 |->
                    IF 2 * k <= Len(s)
                    THEN 16 * HexVal(s[2 * k - 1]) + HexVal(s[2 * k])
                    ELSE 0]]

\* primitive.ObjectIDFromHex: an error unless s is 24 hexadecimal digits.
ObjectIDFromHex(s) ==
    IF Len(s) # ObjectIDHexLen \/ \E k \in 1..Len(s) : HexVal(s[k]) = -1
    THEN [err |-> TRUE, id |-> NilObjectID]
    ELSE [err |-> FALSE,
          id |-> [k \in 1..12 |-> 16 * HexVal(s[2 * k - 1]) + HexVal(s[2 * k])]]

\* The :id path parameters requests carry: the pool's identifiers, one of
\* them in upper case, an identifier of no record, and malformed ones.
IdParams ==
    { Hex(OID(1)), Hex(OID(171)), Rep(22, "0") \o <<"A", "B">>, Hex(OID(2)),
      Rep(23, "0"), Rep(23, "0") \o <<"g">>, Rep(25, "0") }

\* ------------------------------------------------------------- bodies
NoBody == [kind |-> "none"]

\* The response handleAPIError writes to the context.
handleAPIError(status, message) ==
    [status |-> status,
     body |-> [kind |-> "APIError", Status |-> status, Message |-> message,
               Code |-> <<"ERR_", status>>,
               Detail |-> <<"Detailed explanation for ", status, " error">>]]

\* c.Status(status).JSON(fiber.Map{key: value})
JSONMap(status, key, value) ==
    [status |-> status, body |-> [kind |-> "map", key |-> key, value |-> value]]

\* ---------------------------------------------------------- the store
\* A document of the "todos" collection as the Todo struct decodes it; a
\* Comment inserted there has neither title nor done.
TodoDoc(id, title, isDone) ==
    [_id |-> id, kind |-> "todo", title |-> title, done |-> isDone]

CommentDoc(id) == [_id |-> id, kind |-> "comment", title |-> <<>>, done |-> FALSE]

Ids(coll) == {d._id : d \in coll}

\* UpdateOne as an upsert.
UpdateOneUpsert(coll, id) ==
    IF id \in Ids(coll)
    THEN {IF d._id = id THEN [d EXCEPT !.done = TRUE] ELSE d : d \in coll}
    ELSE coll \cup {TodoDoc(id, <<>>, TRUE)}

\* UpdateOne flipping the done flag.
UpdateOneToggle(coll, id) ==
    {IF d._id = id THEN [d EXCEPT !.done = ~d.done] ELSE d : d \in coll}

\* collection.UpdateOne(filter {_id: id}, {$set: {done: true}})
UpdateOne(coll, id) ==
    {IF d._id = id THEN [d EXCEPT !.done = TRUE] ELSE d : d \in coll}

\* collection.DeleteOne(filter {_id: id})
DeleteOne(coll, id) == {d \in coll : d._id # id}

\* collection.InsertOne: a duplicate _id is an error.
InsertOne(coll, doc) ==
    IF doc._id \in Ids(coll)
    THEN [err |-> TRUE, coll |-> coll]
    ELSE [err |-> FALSE, coll |-> coll \cup {doc}]

\* The Todo values getHandler decodes from the cursor.
Find(coll) == {[ID |-> d._id, Title |-> d.title, Done |-> d.done] : d \in coll}

\* -------------------------------------------------------- rate limiter
\* The index of the first entry older than the window, 0 when there is none.
RECURSIVE FirstStale(_, _, _, _)
FirstStale(reqs, now, win, k) ==
    IF k > Len(reqs) THEN 0
    ELSE IF now - reqs[k] > win THEN k
    ELSE FirstStale(reqs, now, win, k + 1)

\* The loop of Limit with requests[i:] for requests[i+1:].
CompactKeepsStale(reqs, now, win) ==
    LET k == FirstStale(reqs, now, win, 1)
    IN  IF k = 0 THEN reqs ELSE SubSeq(reqs, k, Len(reqs))

\* The loop of Limit: the entries after the first stale one.
Compact(reqs, now, win) ==
    LET k == FirstStale(reqs, now, win, 1)
    IN  IF k = 0 THEN reqs ELSE SubSeq(reqs, k + 1, Len(reqs))

\* ------------------------------------------------------------ startup
RetryFourTimes(n) == n < maxRetries + 1

\* The loop condition of initializeDatabase.
Retry(n) == n < maxRetries

\* ------------------------------------------------------------ pipeline
AnyToken(token) == TRUE

\* jwtMiddleware's test of the Authorization header.
HasToken(token) == token # ""

Tokens == {"", "Bearer t"}

VARIABLES
    phase,       \* where main is
    i,           \* initializeDatabase's loop counter
    attemptLog,  \* the outcome of each connection attempt of the current call
    opened,      \* the attempts of the current call whose client is still connected
    limit,       \* the maxRequests and window the Limit closure holds
    bound,       \* the bounds of the run: slots, arrivals, maxTime, clients
    clock,       \* time.Now(), in ticks
    requests,    \* rl.requests
    mu,          \* rl.mu: the slot that holds it, 0 when unlocked
    collection,  \* the documents of golang_db.todos
    issued,      \* the identifiers the driver has generated
    ctx,         \* the request contexts
    arrivals,    \* requests received so far
    admitted,    \* per client, the timestamps Limit has admitted, in lock order
    posted,      \* identifier and title of every Todo a 201 answered, not deleted since
    removed,     \* the identifiers of the documents DeleteOne has removed
    last         \* the step just taken

vars == <<phase, i, attemptLog, opened, limit, bound, clock, requests, mu, collection,
          issued, ctx, arrivals, admitted, posted, removed, last>>

startupVars == <<phase, i, attemptLog, opened, limit, bound>>

limiterVars == <<requests, mu, admitted>>

storeVars == <<collection, issued, posted, removed>>

serverVars == <<clock, limiterVars, storeVars, ctx, arrivals>>

OK200 == [status |-> 200, body |-> NoBody]

FreeCtx ==
    [pc |-> "free", hpc |-> "none", ip |-> "none", now |-> 0, deadline |-> 0,
     auth |-> "unread", resp |-> OK200, done |-> "empty", outcome |-> "none",
     ran |-> <<>>]

\* What a step records of the context it ran on.
Seen(c) == [auth |-> c.auth, outcome |-> c.outcome, ran |-> c.ran, pc |-> c.pc]

\* A step: the operation, its slot, the context before it, its input, the
\* response it wrote (or found) and the error it returned.
Step(op, r, c, arg, resp, err) ==
    [op |-> op, r |-> r, c |-> Seen(c), arg |-> arg, resp |-> resp, err |-> err]

\* The state when main starts, for a Limit closure lim and bounds bnd.
Boot(lim, bnd) ==
    /\ phase = "loadConfig"
    /\ i = 0
    /\ attemptLog = <<>>
    /\ opened = {}
    /\ limit = lim
    /\ bound = bnd
    /\ clock = 0
    /\ requests = [c \in bnd.clients |-> <<>>]
    /\ mu = 0
    /\ collection = {}
    /\ issued = {}
    /\ ctx = [r \in Slots |-> FreeCtx]
    /\ arrivals = 0
    /\ admitted = [c \in bnd.clients |-> <<>>]
    /\ posted = {}
    /\ removed = {}
    /\ last = Step("init", 0, FreeCtx, NoBody, OK200, "nil")

Init ==
    Boot([maxRequests |-> maxRequests, window |-> window],
         [slots |-> MaxSlots, arrivals |-> MaxArrivals, maxTime |-> MaxTime,
          clients |-> {"ip1"}])

\* main: loadConfig, fatal when .env cannot be loaded.
LoadConfig ==
    /\ phase = "loadConfig"
    /\ \E ok \in BOOLEAN :
        /\ phase' = IF ok THEN "initializeDatabase" ELSE "fatalConfig"
        /\ last' = Step("loadConfig", 0, FreeCtx, NoBody, OK200,
                        IF ok THEN "nil" ELSE "err")
    /\ UNCHANGED <<i, attemptLog, opened, limit, bound, serverVars>>

\* One pass of initializeDatabase's loop: Connect, then Ping; on failure the
\* log line, the two-second sleep and i++.  No pass calls Disconnect: the
\* client of a Connect that succeeded stays connected when its Ping fails.
Attempt ==
    /\ phase = "initializeDatabase"
    /\ Retry(i)
    /\ \E connect \in BOOLEAN, ping \in BOOLEAN :
        LET ok == connect /\ ping
        IN  /\ attemptLog' = Append(attemptLog, ok)
            /\ opened' = IF connect THEN opened \cup {Len(attemptLog) + 1} ELSE opened
            /\ phase' = IF ok THEN "connected" ELSE phase
            /\ i' = IF ok THEN i ELSE i + 1
            /\ last' = Step("Attempt", 0, FreeCtx, <<connect, ping>>, OK200,
                            IF ok THEN "nil" ELSE "err")
    /\ UNCHANGED <<limit, bound, serverVars>>

\* initializeDatabase leaves the loop and returns the error; main: log.Fatal.
Exhausted ==
    /\ phase = "initializeDatabase"
    /\ ~Retry(i)
    /\ phase' = "fatalConnect"
    /\ last' = Step("Exhausted", 0, FreeCtx, NoBody, OK200, "err")
    /\ UNCHANGED <<i, attemptLog, opened, limit, bound, serverVars>>

\* main after initializeDatabase returned the client: the collection, the
\* middlewares, the routes, app.Listen.  The record of the call is dropped.
Listen ==
    /\ phase = "connected"
    /\ phase' = "serving"
    /\ i' = 0
    /\ attemptLog' = <<>>
    /\ opened' = {}
    /\ last' = Step("Listen", 0, FreeCtx, NoBody, OK200, "nil")
    /\ UNCHANGED <<limit, bound, serverVars>>

Tick ==
    /\ phase = "serving"
    /\ clock < bound.maxTime
    /\ clock' = clock + 1
    /\ last' = Step("Tick", 0, FreeCtx, NoBody, OK200, "nil")
    /\ UNCHANGED <<startupVars, limiterVars, storeVars, ctx, arrivals>>

\* A request is received: fiber takes a context for it and Limit reads
\* c.IP() and time.Now() before it asks for the lock.
Arrive(r) ==
    /\ phase = "serving"
    /\ arrivals < bound.arrivals
    /\ r <= bound.slots
    /\ ctx[r].pc = "free"
    /\ \A q \in Slots : q < r => ctx[q].pc # "free"
    /\ \E ip \in bound.clients :
        ctx' = [ctx EXCEPT ![r] = [FreeCtx EXCEPT !.pc = "Limit", !.ip = ip,
                                                  !.now = clock]]
    /\ arrivals' = arrivals + 1
    /\ last' = Step("Arrive", r, FreeCtx, NoBody, OK200, "nil")
    /\ UNCHANGED <<startupVars, clock, limiterVars, storeVars>>

\* Limit storing the timestamp of a request it rejects.
LimitRecordsRejection(r) ==
    /\ ctx[r].pc = "Limit"
    /\ mu = 0
    /\ mu' = r
    /\ LET c == ctx[r]
           kept == Compact(requests[c.ip], c.now, limit.window)
           e == handleAPIError(429, "Too many requests")
           arg == [outcome |-> "", ip |-> c.ip, now |-> c.now, before |-> requests[c.ip]]
       IN  IF Len(kept) >= limit.maxRequests
           THEN /\ ctx' = [ctx EXCEPT ![r].resp = e,
                                      ![r].pc = "Return",
                                      ![r].outcome = "rejected",
                                      ![r].ran = Append(@, "Limit")]
                /\ last' = Step("Limit", r, c, [arg EXCEPT !.outcome = "Rejected"], e, "nil")
                /\ requests' = [requests EXCEPT ![c.ip] = Append(kept, c.now)]
                /\ UNCHANGED admitted
           ELSE /\ requests' = [requests EXCEPT ![c.ip] = Append(kept, c.now)]
                /\ admitted' = [admitted EXCEPT ![c.ip] = Append(@, c.now)]
                /\ ctx' = [ctx EXCEPT ![r].pc = "logMiddleware",
                                      ![r].ran = Append(@, "Limit")]
                /\ last' = Step("Limit", r, c, [arg EXCEPT !.outcome = "Allowed"], c.resp, "nil")
    /\ UNCHANGED <<startupVars, clock, storeVars, arrivals>>

\* Limit from rl.mu.Lock() to its return or its call of c.Next(); the lock
\* stays held (defer rl.mu.Unlock()) until Limit returns.
Limit(r) ==
    /\ ctx[r].pc = "Limit"
    /\ mu = 0
    /\ mu' = r
    /\ LET c == ctx[r]
           kept == Compact(requests[c.ip], c.now, limit.window)
           e == handleAPIError(429, "Too many requests")
           arg == [outcome |-> "", ip |-> c.ip, now |-> c.now, before |-> requests[c.ip]]
       IN  IF Len(kept) >= limit.maxRequests
           THEN /\ ctx' = [ctx EXCEPT ![r].resp = e,
                                      ![r].pc = "Return",
                                      ![r].outcome = "rejected",
                                      ![r].ran = Append(@, "Limit")]
                /\ last' = Step("Limit", r, c, [arg EXCEPT !.outcome = "Rejected"], e, "nil")
                /\ UNCHANGED <<requests, admitted>>
           ELSE /\ requests' = [requests EXCEPT ![c.ip] = Append(kept, c.now)]
                /\ admitted' = [admitted EXCEPT ![c.ip] = Append(@, c.now)]
                /\ ctx' = [ctx EXCEPT ![r].pc = "logMiddleware",
                                      ![r].ran = Append(@, "Limit")]
                /\ last' = Step("Limit", r, c, [arg EXCEPT !.outcome = "Allowed"], c.resp, "nil")
    /\ UNCHANGED <<startupVars, clock, storeVars, arrivals>>

\* logMiddleware up to its call of c.Next().
logMiddleware(r) ==
    /\ ctx[r].pc = "logMiddleware"
    /\ ctx' = [ctx EXCEPT ![r].pc = "timeoutMiddleware",
                          ![r].ran = Append(@, "logMiddleware")]
    /\ last' = Step("logMiddleware", r, ctx[r], NoBody, ctx[r].resp, "nil")
    /\ UNCHANGED <<startupVars, clock, limiterVars, storeVars, arrivals>>

\* timeoutMiddleware up to its select: the deadline is set and the goroutine
\* that runs c.Next() is started.
timeoutMiddleware(r) ==
    /\ ctx[r].pc = "timeoutMiddleware"
    /\ ctx' = [ctx EXCEPT ![r].pc = "select",
                          ![r].hpc = "corsMiddleware",
                          ![r].deadline = clock + timeout,
                          ![r].ran = Append(@, "timeoutMiddleware")]
    /\ last' = Step("timeoutMiddleware", r, ctx[r], NoBody, ctx[r].resp, "nil")
    /\ UNCHANGED <<startupVars, clock, limiterVars, storeVars, arrivals>>

\* select, case err := <-done.
SelectDone(r) ==
    /\ ctx[r].pc = "select"
    /\ ctx[r].done # "empty"
    /\ ctx' = [ctx EXCEPT ![r].pc = "Return", ![r].outcome = "completed"]
    /\ last' = Step("SelectDone", r, ctx[r], NoBody, ctx[r].resp, ctx[r].done)
    /\ UNCHANGED <<startupVars, clock, limiterVars, storeVars, arrivals>>

\* select, case <-ctx.Done(): the 408 is written to the context.  The
\* outcome records whether the goroutine had reported by then.
SelectTimeout(r) ==
    /\ ctx[r].pc = "select"
    /\ clock >= ctx[r].deadline
    /\ ctx' = [ctx EXCEPT ![r].pc = "Return",
                          ![r].resp = handleAPIError(408, "Request timeout"),
                          ![r].outcome = IF ctx[r].done = "empty" THEN "timedOut"
                                         ELSE "timedOutLate"]
    /\ last' = Step("SelectTimeout", r, ctx[r], NoBody,
                    handleAPIError(408, "Request timeout"), "nil")
    /\ UNCHANGED <<startupVars, clock, limiterVars, storeVars, arrivals>>

\* fiber's default ErrorHandler for an error a handler returned.
ErrorHandler(err) == [status |-> 500, body |-> [kind |-> "text", text |-> err]]

\* The response fiber sends for the context: the error handler's when the
\* chain returned an error, otherwise what the context holds.
Sent(c) ==
    IF c.outcome = "completed" /\ c.done # "nil" THEN ErrorHandler(c.done) ELSE c.resp

\* The chain returns to fiber: logMiddleware's log line when it ran, Limit's
\* deferred Unlock, and the response is sent.  The context is free again
\* once its goroutine has ended.
Return(r) ==
    /\ ctx[r].pc = "Return"
    /\ mu' = 0
    /\ ctx' = [ctx EXCEPT ![r] = IF ctx[r].hpc \in {"none", "finished"}
                                 THEN FreeCtx
                                 ELSE [ctx[r] EXCEPT !.pc = "sent"]]
    /\ last' = Step("Return", r, ctx[r], NoBody, Sent(ctx[r]), "nil")
    /\ UNCHANGED <<startupVars, clock, requests, admitted, storeVars, arrivals>>

\* ------------------------------------------------------ the goroutine
\* done <- err on a channel without a buffer: only into a waiting receive.
CanSendUnbuffered(c) == c.pc = "select"

\* done <- err proceeds when the select is waiting to receive or the buffer
\* of the channel has room.
CanSend(c) == c.pc = "select" \/ (IF c.done = "empty" THEN 0 ELSE 1) < doneCap

\* The goroutine's c.Next() returns err with resp in the context: done <- err.
\* A context whose response was already sent is free again.  A goroutine that
\* cannot send stays blocked on the channel.
Finished(c, stage, resp, err) ==
    IF ~CanSend(c)
    THEN [c EXCEPT !.hpc = "blocked", !.resp = resp, !.ran = Append(@, stage)]
    ELSE IF c.pc = "sent" THEN FreeCtx
    ELSE [c EXCEPT !.hpc = "finished", !.resp = resp, !.done = err,
                   !.ran = Append(@, stage)]

corsMiddleware(r) ==
    /\ ctx[r].hpc = "corsMiddleware"
    /\ ctx' = [ctx EXCEPT ![r].hpc = "jwtMiddleware",
                          ![r].ran = Append(@, "corsMiddleware")]
    /\ last' = Step("corsMiddleware", r, ctx[r], NoBody, ctx[r].resp, "nil")
    /\ UNCHANGED <<startupVars, clock, limiterVars, storeVars, arrivals>>

\* jwtMiddleware: 401 and no c.Next() when the Authorization header is empty.
jwtMiddleware(r) ==
    /\ ctx[r].hpc = "jwtMiddleware"
    /\ \E token \in Tokens :
        LET c == [ctx[r] EXCEPT !.auth = token]
            e == handleAPIError(401, "No authorization token provided")
        IN  IF HasToken(token)
            THEN /\ ctx' = [ctx EXCEPT ![r] = [c EXCEPT !.hpc = "userActivityLogger",
                                                        !.ran = Append(@, "jwtMiddleware")]]
                 /\ last' = Step("jwtMiddleware", r, ctx[r], token, ctx[r].resp, "nil")
            ELSE /\ ctx' = [ctx EXCEPT ![r] = Finished(c, "jwtMiddleware", e, "nil")]
                 /\ last' = Step("jwtMiddleware", r, ctx[r], token, e, "nil")
    /\ UNCHANGED <<startupVars, clock, limiterVars, storeVars, arrivals>>

userActivityLogger(r) ==
    /\ ctx[r].hpc = "userActivityLogger"
    /\ ctx' = [ctx EXCEPT ![r].hpc = "handler",
                          ![r].ran = Append(@, "userActivityLogger")]
    /\ last' = Step("userActivityLogger", r, ctx[r], NoBody, ctx[r].resp, "nil")
    /\ UNCHANGED <<startupVars, clock, limiterVars, storeVars, arrivals>>

\* ----------------------------------------------------------- handlers
\* A route handler runs on the context of slot r with input arg, writes resp
\* and returns err, leaving the collection as coll.
Handle(r, op, arg, resp, err, coll, iss, pst) ==
    /\ ctx' = [ctx EXCEPT ![r] = Finished(ctx[r], op, resp, err)]
    /\ collection' = coll
    /\ issued' = iss
    /\ posted' = pst
    /\ removed' = removed \cup (Ids(collection) \ Ids(coll))
    /\ last' = Step(op, r, ctx[r], arg, resp, err)
    /\ UNCHANGED <<startupVars, clock, limiterVars, arrivals>>

\* c.JSON(body), c.SendString(body): the status the context holds is kept.
Write(c, body) == [status |-> c.resp.status, body |-> body]

Text(status, text) == [status |-> status, body |-> [kind |-> "text", text |-> text]]

getHandler(r) ==
    /\ ctx[r].hpc = "handler"
    /\ \E out \in {"ok", "find", "decode"} :
        LET resp == CASE out = "ok" ->
                            Write(ctx[r], [kind |-> "todos", todos |-> Find(collection)])
                      [] out = "find" -> handleAPIError(500, "Database query failed")
                      [] out = "decode" -> handleAPIError(500, "Failed to decode todo")
        IN  /\ out = "decode" => collection # {}
            /\ Handle(r, "getHandler", out, resp, "nil", collection, issued, posted)

\* The bodies of POST /api/post: one that does not parse, and every Todo in
\* JSON with or without _id and done.
PostBodies ==
    {[malformed |-> TRUE, title |-> <<>>, done |-> FALSE, id |-> NilObjectID]}
    \cup [malformed : {FALSE}, title : Titles, done : BOOLEAN,
          id : {NilObjectID} \cup IdPool]

postHandler(r) ==
    /\ ctx[r].hpc = "handler"
    /\ \E body \in PostBodies, transport \in BOOLEAN, gen \in IdPool :
        LET verr == validateTodo(body.title)
            id == IF body.id = NilObjectID THEN gen ELSE body.id
            iss == IF body.id = NilObjectID THEN issued \cup {gen} ELSE issued
            ins == InsertOne(collection, TodoDoc(id, body.title, body.done))
            arg == [body |-> body, transport |-> transport]
        IN  IF body.malformed
            THEN Handle(r, "postHandler", arg, handleAPIError(400, "Invalid request body"),
                        "nil", collection, issued, posted)
            ELSE IF verr # "nil"
            THEN Handle(r, "postHandler", arg, handleAPIError(400, verr),
                        "nil", collection, issued, posted)
            ELSE /\ body.id = NilObjectID => gen \notin issued
                 /\ IF ~transport \/ ins.err
                    THEN Handle(r, "postHandler", arg,
                                JSONMap(500, "error", "error adding todo"),
                                "nil", collection, iss, posted)
                    ELSE Handle(r, "postHandler", arg,
                                [status |-> 201,
                                 body |-> [kind |-> "todo", ID |-> id,
                                           Title |-> body.title, Done |-> body.done]],
                                "nil", ins.coll, iss,
                                posted \cup {[id |-> id, title |-> body.title]})

updateHandler(r) ==
    /\ ctx[r].hpc = "handler"
    /\ \E id \in IdParams, transport \in BOOLEAN :
        LET objectId == ObjectIDFromHex(id)
            arg == [id |-> id, transport |-> transport,
                    found |-> ~objectId.err /\ objectId.id \in Ids(collection),
                    wasDone |-> ~objectId.err /\
                                \E d \in collection : d._id = objectId.id /\ d.done]
        IN  IF objectId.err
            THEN Handle(r, "updateHandler", arg, JSONMap(400, "error", "empty id"),
                        "nil", collection, issued, posted)
            ELSE IF ~transport
            THEN Handle(r, "updateHandler", arg, ctx[r].resp, "update failed",
                        collection, issued, posted)
            ELSE Handle(r, "updateHandler", arg, JSONMap(200, "success", TRUE),
                        "nil", UpdateOne(collection, objectId.id), issued, posted)

delHandler(r) ==
    /\ ctx[r].hpc = "handler"
    /\ \E id \in IdParams, transport \in BOOLEAN :
        LET objectId == ObjectIDFromHex(id)
            arg == [id |-> id, transport |-> transport,
                    found |-> ~objectId.err /\ objectId.id \in Ids(collection)]
        IN  IF objectId.err
            THEN Handle(r, "delHandler", arg, JSONMap(400, "error", "empty id"),
                        "nil", collection, issued, posted)
            ELSE IF ~transport
            THEN Handle(r, "delHandler", arg, ctx[r].resp, "delete failed",
                        collection, issued, posted)
            ELSE Handle(r, "delHandler", arg,
                        JSONMap(200, "succsess", "todo deleted successfully"),
                        "nil", DeleteOne(collection, objectId.id), issued,
                        {p \in posted : p.id # objectId.id})

\* healthHandler answering 503 when the ping fails.
healthHandlerFailsOnPing(r) ==
    /\ ctx[r].hpc = "handler"
    /\ \E ping \in BOOLEAN :
        Handle(r, "healthHandler", ping,
               IF ping
               THEN Write(ctx[r], [kind |-> "health", Status |-> "ok", Timestamp |-> clock,
                                   Version |-> "2.0.0", Database |-> "connected"])
               ELSE handleAPIError(503, "Database disconnected"),
               "nil", collection, issued, posted)

healthHandler(r) ==
    /\ ctx[r].hpc = "handler"
    /\ \E ping \in BOOLEAN :
        Handle(r, "healthHandler", ping,
               Write(ctx[r], [kind |-> "health", Status |-> "ok", Timestamp |-> clock,
                              Version |-> "2.0.0",
                              Database |-> IF ping THEN "connected" ELSE "disconnected"]),
               "nil", collection, issued, posted)

registerHandler(r) ==
    /\ ctx[r].hpc = "handler"
    /\ \E parse \in BOOLEAN, hash \in BOOLEAN :
        Handle(r, "registerHandler", <<parse, hash>>,
               IF ~parse THEN handleAPIError(400, "Invalid user data")
               ELSE IF ~hash THEN handleAPIError(500, "Failed to hash password")
               ELSE Text(201, "User registered successfully"),
               "nil", collection, issued, posted)

\* validateEmail
Contains(s, ch) == \E k \in 1..Len(s) : s[k] = ch

passwordResetHandler(r) ==
    /\ ctx[r].hpc = "handler"
    /\ \E email \in {<<>>, <<"a">>, <<"a", "@", "b">>} :
        Handle(r, "passwordResetHandler", email,
               IF email = <<>> THEN handleAPIError(400, "Email is required")
               ELSE IF ~Contains(email, "@") THEN handleAPIError(400, "invalid email format")
               ELSE Text(200, "OK"),
               "nil", collection, issued, posted)

loginHandler(r) ==
    /\ ctx[r].hpc = "handler"
    /\ \E parse \in BOOLEAN, sign \in BOOLEAN :
        Handle(r, "loginHandler", <<parse, sign>>,
               IF ~parse THEN handleAPIError(400, "Invalid login data")
               ELSE IF ~sign THEN handleAPIError(500, "Failed to generate token")
               ELSE Write(ctx[r], [kind |-> "map", key |-> "token", value |-> "jwt"]),
               "nil", collection, issued, posted)

updateUserHandler(r) ==
    /\ ctx[r].hpc = "handler"
    /\ \E parse \in BOOLEAN :
        Handle(r, "updateUserHandler", parse,
               IF ~parse THEN handleAPIError(400, "Invalid user data") ELSE Text(200, "OK"),
               "nil", collection, issued, posted)

\* postCommentHandler inserts the Comment into the same collection.
postCommentHandler(r) ==
    /\ ctx[r].hpc = "handler"
    /\ \E parse \in BOOLEAN, cid \in {NilObjectID} \cup IdPool, transport \in BOOLEAN,
          gen \in IdPool :
        LET id == IF cid = NilObjectID THEN gen ELSE cid
            iss == IF cid = NilObjectID THEN issued \cup {gen} ELSE issued
            ins == InsertOne(collection, CommentDoc(id))
            arg == [parse |-> parse, id |-> cid, transport |-> transport]
        IN  IF ~parse
            THEN Handle(r, "postCommentHandler", arg,
                        handleAPIError(400, "Invalid comment data"),
                        "nil", collection, issued, posted)
            ELSE /\ cid = NilObjectID => gen \notin issued
                 /\ IF ~transport \/ ins.err
                    THEN Handle(r, "postCommentHandler", arg,
                                handleAPIError(500, "Failed to add comment"),
                                "nil", collection, iss, posted)
                    ELSE Handle(r, "postCommentHandler", arg,
                                [status |-> 201, body |-> [kind |-> "comment", ID |-> cid]],
                                "nil", ins.coll, iss, posted)

Next ==
    \/ LoadConfig
    \/ Attempt
    \/ Exhausted
    \/ Listen
    \/ Tick
    \/ \E r \in Slots : Arrive(r)
    \/ \E r \in Slots : Limit(r)
    \/ \E r \in Slots : logMiddleware(r)
    \/ \E r \in Slots : timeoutMiddleware(r)
    \/ \E r \in Slots : SelectDone(r)
    \/ \E r \in Slots : SelectTimeout(r)
    \/ \E r \in Slots : Return(r)
    \/ \E r \in Slots : corsMiddleware(r)
    \/ \E r \in Slots : jwtMiddleware(r)
    \/ \E r \in Slots : userActivityLogger(r)
    \/ \E r \in Slots : getHandler(r)
    \/ \E r \in Slots : postHandler(r)
    \/ \E r \in Slots : updateHandler(r)
    \/ \E r \in Slots : delHandler(r)
    \/ \E r \in Slots : healthHandler(r)
    \/ \E r \in Slots : registerHandler(r)
    \/ \E r \in Slots : passwordResetHandler(r)
    \/ \E r \in Slots : loginHandler(r)
    \/ \E r \in Slots : updateUserHandler(r)
    \/ \E r \in Slots : postCommentHandler(r)

Spec == Init /\ [][Next]_vars

\* Limit with small parameters, two clients and two contexts; the routes are
\* GET / and GET /health.
InitLimiter ==
    Boot([maxRequests |-> LimMaxRequests, window |-> LimWindow],
         [slots |-> LimSlots, arrivals |-> LimArrivals, maxTime |-> LimTime,
          clients |-> Clients])

NextLimiter ==
    \/ LoadConfig
    \/ Attempt
    \/ Exhausted
    \/ Listen
    \/ Tick
    \/ \E r \in Slots : Arrive(r)
    \/ \E r \in Slots : Limit(r)
    \/ \E r \in Slots : logMiddleware(r)
    \/ \E r \in Slots : timeoutMiddleware(r)
    \/ \E r \in Slots : SelectDone(r)
    \/ \E r \in Slots : SelectTimeout(r)
    \/ \E r \in Slots : Return(r)
    \/ \E r \in Slots : corsMiddleware(r)
    \/ \E r \in Slots : jwtMiddleware(r)
    \/ \E r \in Slots : userActivityLogger(r)
    \/ \E r \in Slots : getHandler(r)
    \/ \E r \in Slots : healthHandler(r)

SpecLimiter == InitLimiter /\ [][NextLimiter]_vars

\* Every route behind a limiter that admits GateMaxRequests requests.
InitGates ==
    Boot([maxRequests |-> GateMaxRequests, window |-> window],
         [slots |-> MaxSlots, arrivals |-> GateArrivals, maxTime |-> MaxTime,
          clients |-> {"ip1"}])

SpecGates == InitGates /\ [][Next]_vars

\* Clients that send GET /health only, behind the same limiter.
NextHealth ==
    \/ LoadConfig
    \/ Attempt
    \/ Exhausted
    \/ Listen
    \/ Tick
    \/ \E r \in Slots : Arrive(r)
    \/ \E r \in Slots : Limit(r)
    \/ \E r \in Slots : logMiddleware(r)
    \/ \E r \in Slots : timeoutMiddleware(r)
    \/ \E r \in Slots : SelectDone(r)
    \/ \E r \in Slots : SelectTimeout(r)
    \/ \E r \in Slots : Return(r)
    \/ \E r \in Slots : corsMiddleware(r)
    \/ \E r \in Slots : jwtMiddleware(r)
    \/ \E r \in Slots : userActivityLogger(r)
    \/ \E r \in Slots : healthHandler(r)

SpecHealth == InitGates /\ [][NextHealth]_vars

\* Time goes on while a deadline of timeoutMiddleware is pending.
Elapse ==
    /\ phase = "serving"
    /\ clock >= bound.maxTime
    /\ \E r \in Slots : ctx[r].pc = "select" /\ clock < ctx[r].deadline
    /\ clock' = clock + 1
    /\ last' = Step("Tick", 0, FreeCtx, NoBody, OK200, "nil")
    /\ UNCHANGED <<startupVars, limiterVars, storeVars, ctx, arrivals>>

\* Two contexts and one client, with time that does not stop before a
\* deadline.
InitLive ==
    Boot([maxRequests |-> LimMaxRequests, window |-> LimWindow],
         [slots |-> LimSlots, arrivals |-> LiveArrivals, maxTime |-> MaxTime,
          clients |-> {"ip1"}])

NextLive ==
    \/ NextLimiter
    \/ Elapse

\* The scheduler runs every goroutine that can run, time passes, and
\* sync.Mutex hands the lock to a goroutine that keeps asking for it.  No
\* handler is required ever to return.
FairLive ==
    /\ WF_vars(Tick)
    /\ WF_vars(Elapse)
    /\ \A r \in Slots :
        /\ SF_vars(Limit(r))
        /\ WF_vars(logMiddleware(r))
        /\ WF_vars(timeoutMiddleware(r))
        /\ WF_vars(SelectDone(r))
        /\ WF_vars(SelectTimeout(r))
        /\ WF_vars(Return(r))
        /\ WF_vars(corsMiddleware(r))
        /\ WF_vars(jwtMiddleware(r))
        /\ WF_vars(userActivityLogger(r))

SpecLive == InitLive /\ [][NextLive]_vars /\ FairLive

\* ------------------------------------------------------------- claims
\* The entries of ts that lie in the window that ends at now.
InWindow(ts, now, win) == {k \in 1..Len(ts) : now - win <= ts[k] /\ ts[k] <= now}

\* The oldest timestamp of a non-empty sequence.
Oldest(ts) == CHOOSE t \in {ts[k] : k \in 1..Len(ts)} : \A k \in 1..Len(ts) : t <= ts[k]

\* C1: a request is never admitted when maxRequests requests of its client
\* were already admitted with timestamps inside the window that ends at its
\* own timestamp: it is rejected with 429 and goes no further.
C1_FullWindowRejects ==
    (last.op = "Limit" /\ last.arg.outcome = "Allowed") =>
        LET ts == admitted[last.arg.ip]
            earlier == SubSeq(ts, 1, Len(ts) - 1)
        IN  Cardinality(InWindow(earlier, last.arg.now, limit.window)) < limit.maxRequests

\* C2: when the client's sequence holds maxRequests timestamps and the
\* request's time is more than window after the oldest of them, the request
\* is admitted and its timestamp is appended.
C2_StaleOldestAdmits ==
    (/\ last.op = "Limit"
     /\ Len(last.arg.before) = limit.maxRequests
     /\ last.arg.now - Oldest(last.arg.before) > limit.window) =>
        /\ last.arg.outcome = "Allowed"
        /\ \E k \in 0..Len(last.arg.before) :
            requests[last.arg.ip] =
                Append(SubSeq(last.arg.before, k + 1, Len(last.arg.before)), last.arg.now)
        /\ ctx[last.r].pc = "logMiddleware"

\* A full sequence with a stale and a fresh entry, and the request admitted.
C2_Witness ==
    /\ last.op = "Limit"
    /\ Len(last.arg.before) = limit.maxRequests
    /\ last.arg.now - Oldest(last.arg.before) > limit.window
    /\ \E k \in 1..Len(last.arg.before) :
        last.arg.now - last.arg.before[k] <= limit.window
    /\ last.arg.outcome = "Allowed"

\* C3: a request whose handler had not completed when the deadline elapsed is
\* answered 408 with the timeout error body, whatever its goroutine does later.
C3_TimeoutAnswers408 ==
    (last.op = "Return" /\ last.c.outcome = "timedOut") =>
        /\ last.resp.status = 408
        /\ last.resp.body.kind = "APIError"
        /\ last.resp.body.Message = "Request timeout"

\* The three title rules as the claim states them, in characters.
TitleEmpty(t) == t = <<>>

TitleLongerThan100(t) == Len(t) > 100

TitleWhitespaceOnly(t) == t # <<>> /\ \A k \in 1..Len(t) : t[k] \in {" ", "nbsp"}

TitleBreaksARule(t) == TitleEmpty(t) \/ TitleLongerThan100(t) \/ TitleWhitespaceOnly(t)

\* C4: postHandler answers a title that is empty, longer than 100 characters
\* or whitespace-only with 400 and leaves the store as it is; it changes the
\* store only for a title that passes the three rules.
C4_InvalidTitleNoInsert ==
    [][(last'.op = "postHandler" /\ ~last'.arg.body.malformed) =>
          /\ TitleBreaksARule(last'.arg.body.title) =>
                /\ last'.resp.status = 400
                /\ collection' = collection
                /\ issued' = issued
          /\ collection' # collection => ~TitleBreaksARule(last'.arg.body.title)]_vars

\* postHandler has answered a whitespace-only title with 400.
C4_Witness ==
    /\ last.op = "postHandler"
    /\ ~last.arg.body.malformed
    /\ TitleWhitespaceOnly(last.arg.body.title)
    /\ ~TitleLongerThan100(last.arg.body.title)
    /\ last.resp.status = 400

\* C5: a 201 of postHandler carries a non-empty identifier the store assigned,
\* the title of the request and done = false; and every list getHandler
\* returns holds the identifier and title of every Todo posted and not
\* deleted since.
C5_RoundTrip ==
    /\ (last.op = "postHandler" /\ last.resp.status = 201) =>
          /\ last.resp.body.ID # NilObjectID
          /\ last.arg.body.id = NilObjectID
          /\ last.resp.body.Title = last.arg.body.title
          /\ last.resp.body.Done = FALSE
    /\ (last.op = "getHandler" /\ last.arg = "ok") =>
          \A p \in posted :
              \E t \in last.resp.body.todos : t.ID = p.id /\ t.Title = p.title

IsHexDigit(ch) ==
    ch \in {"0", "1", "2", "3", "4", "5", "6", "7", "8", "9", "a", "b", "c", "d",
            "e", "f", "A", "B", "C", "D", "E", "F"}

\* An identifier in the store's format: 24 hexadecimal digits.
WellFormedId(s) == Len(s) = 24 /\ \A k \in 1..Len(s) : IsHexDigit(s[k])

\* C6: updateHandler and delHandler, given a well-formed identifier that
\* matches no record and a store call that returns no error, answer 200 and
\* leave the store as it is.
C6_NotFoundSucceeds ==
    [][(/\ last'.op \in {"updateHandler", "delHandler"}
        /\ WellFormedId(last'.arg.id)
        /\ last'.arg.transport
        /\ ObjectIDFromHex(last'.arg.id).id \notin Ids(collection)) =>
          /\ last'.resp.status = 200
          /\ last'.resp.body.kind = "map"
          /\ last'.err = "nil"
          /\ collection' = collection]_vars

\* delHandler has answered 200 for an identifier whose record an earlier
\* delete removed.
C6_Witness ==
    /\ last.op = "delHandler"
    /\ WellFormedId(last.arg.id)
    /\ last.arg.transport
    /\ ~last.arg.found
    /\ ObjectIDFromHex(last.arg.id).id \in removed
    /\ last.resp.status = 200

Fatal == {"fatalConfig", "fatalConnect"}

\* C7: initializeDatabase makes at most 3 attempts, returns at the first one
\* whose connect and ping both succeed and makes no further one; when all
\* fail it gives up after exactly 3 and main aborts: no request is ever
\* received.
C7_ThreeAttempts ==
    /\ [](/\ Len(attemptLog) <= 3
          /\ phase = "initializeDatabase" =>
                \A k \in 1..Len(attemptLog) : ~attemptLog[k]
          /\ phase = "connected" =>
                /\ attemptLog # <<>>
                /\ attemptLog[Len(attemptLog)]
                /\ \A k \in 1..(Len(attemptLog) - 1) : ~attemptLog[k]
          /\ phase = "fatalConnect" =>
                /\ Len(attemptLog) = 3
                /\ \A k \in 1..3 : ~attemptLog[k]
          /\ phase # "serving" =>
                /\ arrivals = 0
                /\ \A r \in Slots : ctx[r] = FreeCtx)
    /\ [][/\ phase = "connected" => last'.op # "Attempt"
          /\ phase \in Fatal => phase' = phase]_vars

\* The third attempt succeeded after two failures.
C7_Witness ==
    /\ phase = "connected"
    /\ attemptLog = <<FALSE, FALSE, TRUE>>

\* C8: every response sent with a status outside 2xx has the standard error
\* body: status, message, code "ERR_<status>" and detail.
C8_ErrorBodyShape ==
    (last.op = "Return" /\ last.resp.status \notin 200..299) =>
        /\ last.resp.body.kind = "APIError"
        /\ last.resp.body.Status = last.resp.status
        /\ last.resp.body.Code = <<"ERR_", last.resp.status>>

HandlerOps ==
    {"getHandler", "postHandler", "updateHandler", "delHandler", "healthHandler",
     "registerHandler", "passwordResetHandler", "loginHandler", "updateUserHandler",
     "postCommentHandler"}

\* C9: a request Limit rejected (429) or jwtMiddleware found without an
\* Authorization header (401) runs no later stage and no handler, and no
\* store operation is made for it; a handler runs only on a request Limit
\* admitted and whose Authorization header is not empty.
C9_GatesShortCircuit ==
    /\ [](\A r \in Slots :
            /\ ctx[r].outcome = "rejected" =>
                  /\ ctx[r].ran = <<"Limit">>
                  /\ ctx[r].hpc = "none"
                  /\ ctx[r].resp.status = 429
            /\ ctx[r].auth = "" =>
                  /\ ctx[r].hpc = "finished"
                  /\ ctx[r].ran[Len(ctx[r].ran)] = "jwtMiddleware")
    /\ [](last.op \in HandlerOps =>
            /\ last.c.auth \notin {"", "unread"}
            /\ last.c.outcome # "rejected"
            /\ SubSeq(last.c.ran, 1, 5) =
                  <<"Limit", "logMiddleware", "timeoutMiddleware", "corsMiddleware",
                    "jwtMiddleware">>)
    /\ [][/\ \A r \in Slots :
                ((ctx[r].outcome = "rejected" \/ ctx[r].auth = "") /\ last'.r = r) =>
                    last'.op \in {"SelectDone", "SelectTimeout", "Return"}
          /\ storeVars' # storeVars => last'.op \in HandlerOps]_vars

\* A request Limit rejected has been answered 429 after Limit alone ran.
C9_Witness ==
    /\ last.op = "Return"
    /\ last.c.outcome = "rejected"
    /\ last.c.ran = <<"Limit">>
    /\ last.resp.status = 429

\* C10: updateHandler and delHandler answer an identifier that is not in the
\* store's format with 400 and make no store operation.
C10_MalformedIdNoStoreCall ==
    [][(last'.op \in {"updateHandler", "delHandler"} /\ ~WellFormedId(last'.arg.id)) =>
          /\ last'.resp.status = 400
          /\ last'.err = "nil"
          /\ UNCHANGED storeVars]_vars

\* delHandler has answered 400 for an identifier one digit short, with a
\* record in the store.
C10_Witness ==
    /\ last.op = "delHandler"
    /\ Len(last.arg.id) = 23
    /\ last.resp.status = 400
    /\ collection # {}


\* C11: every Todo postHandler creates has an identifier the store chose at
\* that insert, never the one of the request body, and done = false; and a
\* document's done flag becomes true only by updateHandler on its identifier.
C11_ClientSuppliesTitleOnly ==
    [][/\ (last'.op = "postHandler" /\ last'.resp.status = 201) =>
            /\ last'.resp.body.ID \in issued' \ issued
            /\ last'.resp.body.Done = FALSE
            /\ \A d \in collection' \ collection :
                  d._id = last'.resp.body.ID /\ ~d.done
       /\ \A d \in collection' :
            (d.done /\ d \notin collection) =>
                /\ last'.op = "updateHandler"
                /\ ObjectIDFromHex(last'.arg.id).id = d._id]_vars


HealthBody(resp) == resp.status = 200 /\ resp.body.kind = "health"

\* C12 as stated: every GET /health request is answered 200 with the health
\* body.
C12_HealthNeverFails ==
    last.op = "Return" => HealthBody(last.resp)

\* C12: healthHandler has no failure outcome of its own: on a context nothing
\* has written to it writes 200 with the health body whether or not the ping
\* succeeds.  A GET /health request is answered with it when Limit admitted
\* it, it carried an Authorization header and the handler completed before
\* the deadline; it is answered 429 when Limit rejected it and 401 when the
\* header was empty.
C12_HealthBehindGates ==
    /\ (last.op = "healthHandler" /\ last.c.outcome = "none") =>
          HealthBody(last.resp) /\ last.err = "nil"
    /\ (last.op = "Return" /\ last.c.outcome = "completed") =>
          IF last.c.auth = "" THEN last.resp.status = 401 ELSE HealthBody(last.resp)
    /\ (last.op = "Return" /\ last.c.outcome = "rejected") => last.resp.status = 429

\* A GET /health request without an Authorization header has been answered 401.
C12_Witness ==
    /\ last.op = "Return"
    /\ last.c.outcome = "completed"
    /\ last.c.auth = ""
    /\ last.c.ran[Len(last.c.ran)] = "jwtMiddleware"
    /\ last.resp.status = 401


\* The positions of the chain between Limit's call of c.Next() and its return.
Downstream == {"logMiddleware", "timeoutMiddleware", "select"}

\* C13: the lock of the limiter covers the admission decision only: a request
\* that is in the downstream stages does not hold it, so a request waiting
\* for its admission decision is not kept waiting by one that is downstream.
C13_LockCoversAdmissionOnly ==
    \A r \in Slots :
        ctx[r].pc \in Downstream =>
            /\ mu # r
            /\ \A q \in Slots : ctx[q].pc = "Limit" => mu = 0


\* C14: after every call of Limit for a client, every timestamp stored for
\* that client is within window of the call's now.
C14_NoStaleEntryLeft ==
    last.op = "Limit" =>
        \A k \in 1..Len(requests[last.arg.ip]) :
            last.arg.now - requests[last.arg.ip][k] <= limit.window


\* The entries of the sequence before that a call of Limit with timestamp
\* now removed, given the sequence it left: the prefix that is gone.
Dropped(before, after, outcome) ==
    SubSeq(before, 1, Len(before) - (Len(after) - (IF outcome = "Allowed" THEN 1 ELSE 0)))

\* An entry still within window of now.
Fresh(t, now) == now - t <= limit.window

\* C15, its bound alone: no stored sequence is longer than maxRequests.
LengthBound == \A c \in bound.clients : Len(requests[c]) <= limit.maxRequests

\* C15: a stored sequence never has more than maxRequests entries, under any
\* interleaving, and no call of Limit removes an entry that is still within
\* window of its now.
C15_BoundWithoutTruncation ==
    /\ []LengthBound
    /\ [][last'.op = "Limit" =>
            LET gone == Dropped(last'.arg.before, requests'[last'.arg.ip],
                                last'.arg.outcome)
            IN  \A k \in 1..Len(gone) : ~Fresh(gone[k], last'.arg.now)]_vars


\* C16: a call of Limit that rejects leaves the stored sequences of all
\* clients as they were; a call that admits stores for its client a suffix of
\* the sequence it found with the one timestamp of the request appended, and
\* leaves the sequences of the other clients as they were.
C16_RejectionNotRecorded ==
    [][last'.op = "Limit" =>
          LET ip == last'.arg.ip
              before == last'.arg.before
          IN  /\ before = requests[ip]
              /\ \A c \in bound.clients \ {ip} : requests'[c] = requests[c]
              /\ last'.arg.outcome = "Rejected" => requests' = requests
              /\ last'.arg.outcome = "Allowed" =>
                    \E k \in 0..Len(before) :
                        requests'[ip] =
                            Append(SubSeq(before, k + 1, Len(before)), last'.arg.now)]_vars

\* Limit has rejected a request of a client while another client has a
\* stored sequence, and the rejected client's sequence is the one it found.
C16_Witness ==
    /\ last.op = "Limit"
    /\ last.arg.outcome = "Rejected"
    /\ requests[last.arg.ip] = last.arg.before
    /\ \E c \in bound.clients \ {last.arg.ip} : requests[c] # <<>>


\* C17: under any interleaving, the compaction of Limit removes no entry that
\* is still within window of the request's now, and for no client does any
\* window that ends at one of its admitted timestamps hold more than
\* maxRequests of them.
C17_CompactionRemovesOnlyStale ==
    /\ [][last'.op = "Limit" =>
            \A k \in 1..Len(Dropped(requests[last'.arg.ip], requests'[last'.arg.ip],
                                    last'.arg.outcome)) :
                ~Fresh(requests[last'.arg.ip][k], last'.arg.now)]_vars
    /\ [](\A c \in bound.clients : \A k \in 1..Len(admitted[c]) :
            Cardinality(InWindow(admitted[c], admitted[c][k], limit.window))
                <= limit.maxRequests)


\* C18: once a request has a terminal outcome (completed, rejected at a gate
\* or timed out), the only step taken for it is the return of the chain: no
\* stage, no handler and no store operation.
C18_TerminalShortCircuits ==
    [][\A r \in Slots :
          (ctx[r].outcome # "none" /\ last'.r = r) =>
              last'.op = "Return" /\ UNCHANGED storeVars]_vars


\* The error the three rules ask for, in their order and in characters.
RuleError(t) ==
    IF TitleEmpty(t) THEN "title is required"
    ELSE IF TitleLongerThan100(t) THEN "title must be less than 100 characters"
    ELSE IF TitleWhitespaceOnly(t) THEN "title cannot be only whitespace"
    ELSE "nil"

\* C19: validateTodo, as postHandler applies it, returns the error of the
\* first failing rule in the order empty, longer than 100 characters,
\* whitespace-only, and no error exactly when the title is non-empty, at most
\* 100 characters long and not all whitespace.
C19_ValidationPrecedence ==
    (last.op = "postHandler" /\ ~last.arg.body.malformed) =>
        LET want == RuleError(last.arg.body.title)
        IN  /\ validateTodo(last.arg.body.title) = want
            /\ want # "nil" =>
                  /\ last.resp.status = 400
                  /\ last.resp.body.Message = want
            /\ want = "nil" => last.resp.status # 400


\* C20: a PATCH that succeeds (answered 200, no error returned) changes
\* nothing in the store but the done flag of the record with its identifier,
\* which is true afterwards; on a record already done it changes nothing; and
\* no step of any handler changes the title of a record that stays in the
\* store or sets its done flag back to false.
C20_MarkDoneFrame ==
    [][/\ (last'.op = "updateHandler" /\ last'.err = "nil" /\ last'.resp.status = 200) =>
            LET id == ObjectIDFromHex(last'.arg.id).id
            IN  /\ Ids(collection') = Ids(collection)
                /\ \A d \in collection :
                      IF d._id = id
                      THEN \E e \in collection' :
                              /\ e._id = id
                              /\ e.done
                              /\ e.title = d.title
                              /\ e.kind = d.kind
                      ELSE d \in collection'
                /\ Cardinality(collection') = Cardinality(collection)
                /\ (\A d \in collection : d._id = id => d.done) =>
                      collection' = collection
       /\ \A d \in collection : \A e \in collection' :
            d._id = e._id => (e.title = d.title /\ (d.done => e.done))]_vars

\* updateHandler has answered 200 for a record that was done already.
C20_Witness ==
    /\ last.op = "updateHandler"
    /\ last.err = "nil"
    /\ last.resp.status = 200
    /\ last.arg.found
    /\ last.arg.wasDone
    /\ \E d \in collection :
          d._id = ObjectIDFromHex(last.arg.id).id /\ d.done /\ d.title # <<>>


\* The positions of the chain of a request that has not been answered.
InChain == {"Limit", "logMiddleware", "timeoutMiddleware", "select", "Return"}

\* C21: every request received reaches an outcome; the lock of the limiter
\* is released after every acquisition; no request waits for the lock for
\* ever; and the goroutine of timeoutMiddleware is never left blocked on its
\* send to done.  No handler is assumed to return.
C21_EveryRequestTerminates ==
    /\ \A r \in Slots : (ctx[r].pc \in InChain) ~> (ctx[r].outcome # "none")
    /\ \A r \in Slots : (mu = r) ~> (mu = 0)
    /\ \A r \in Slots : (ctx[r].pc = "Limit") ~> (ctx[r].pc # "Limit")
    /\ [](\A r \in Slots : ctx[r].hpc # "blocked")

\* A request has timed out with its handler still running and holds the lock
\* while another waits for it.
C21_Witness ==
    \E r \in Slots, q \in Slots :
        /\ ctx[r].outcome = "timedOut"
        /\ ctx[r].hpc = "handler"
        /\ mu = r
        /\ ctx[q].pc = "Limit"


\* C22: Limit rejects a request only when the stored sequence of its client
\* holds at least maxRequests timestamps inside the window that ends at the
\* request's now, and so only when at least maxRequests requests of the
\* client were admitted inside that window.
C22_NoFalseRejection ==
    (last.op = "Limit" /\ last.arg.outcome = "Rejected") =>
        /\ Cardinality(InWindow(last.arg.before, last.arg.now, limit.window))
              >= limit.maxRequests
        /\ Cardinality(InWindow(admitted[last.arg.ip], last.arg.now, limit.window))
              >= limit.maxRequests


\* C23: when initializeDatabase returns, the only client it created that is
\* still connected is the one it returns, and none when it fails; and no
\* attempt starts with the client of an earlier attempt still connected.
C23_OneHandleOpen ==
    /\ phase = "connected" => opened = {Len(attemptLog)}
    /\ phase = "fatalConnect" => opened = {}
    /\ phase = "initializeDatabase" => opened = {}


\* C24: every record of the collection, and every element of a list
\* getHandler returns, has a title that is non-empty, not all whitespace and
\* at most 100 characters long; and only postHandler adds a record.
C24_CollectionTitlesValid ==
    /\ [](/\ \A d \in collection : ~TitleBreaksARule(d.title)
          /\ (last.op = "getHandler" /\ last.arg = "ok") =>
                \A t \in last.resp.body.todos : ~TitleBreaksARule(t.Title))
    /\ [][Ids(collection') \ Ids(collection) # {} => last'.op = "postHandler"]_vars

====
